---- MODULE Spec2Model ----
(***************************************************************************)
(* State-machine model of the UBV remux tool (Go implementation):          *)
(*   ubv/ubvinfo.go   Analyse, runUbvInfo, parseUbvInfoFile, parseUbvInfo  *)
(*   ubv/ubvfile.go   extractTimecodeAndRate, guessVideoRate               *)
(*   demux/demux.go   DemuxSinglePartitionToNewFiles, DemuxSinglePartition *)
(*   remux.go         RemuxCLI, getStartTimecode                           *)
(*   ffmpegutil       MuxAudioAndVideo, MuxVideoOnly, MuxAudioOnly         *)
(* One run processes one input .ubv file.  log.Fatal ends the process with *)
(* os.Exit(1) (deferred calls do not run); a runtime panic unwinds the     *)
(* stack (deferred calls run) and then ends the process.                   *)
(***************************************************************************)
EXTENDS Integers, Sequences, FiniteSets, TLC

VARIABLES
    pc,             \* position of the single thread of control
    exitMsg,        \* "" while running, else the reason the process ended
    \* ---- program inputs (command line and environment)
    sidecar,        \* the lines of <ubv>.txt read, or printed by the analyzer, so far
    gen,            \* the family of sidecars the run draws its lines from
    ubvBytes,       \* content of the .ubv file, known once the file is opened
    cacheExists,    \* os.Stat(<ubv>.txt) succeeded, known once Analyse asks
    extractAudio, extractVideo, videoTrackNum, forceRate, createMP4,
    \* ---- Index Reader
    source,         \* "none" | "file" | "child": where the scanner reads
    lookedUp,       \* getUbvInfoCommand has searched for the analyzer
    childState,     \* "none" | "running" | "closed" | "exited"
    exitStatus,     \* exit status of the child (meaningful once exited)
    waited,         \* cmd.Wait() has returned
    scanPos,        \* number of lines the scanner has returned
    firstLine, partitions, current, detached,
    returned,       \* Analyse has returned the index to RemuxCLI
    \* ---- RemuxCLI / demux
    pIdx,           \* partition being extracted (1-based), 0 before the loop
    videoFilename, audioFilename, mp4Filename,
    ubvOpen,        \* the .ubv input handle is open
    videoSink, audioSink,   \* bufio.Writer + os.File of each output, or Nil
    buffer,         \* len(buffer), the scratch buffer of DemuxSinglePartition
    fIdx,           \* frame of the partition being processed (1-based)
    frameDataRead,  \* intra-frame cursor of the video NAL loop
    disk,           \* output files on disk: name -> bytes
    created,        \* names passed to os.Create so far (history)
    routed,         \* per processed frame: "video" | "audio" | "skip" (history)
    reads,          \* range of .ubv offsets read for the frame in hand (history)
    muxed,          \* partitions for which the muxer ran to completion
    named,          \* per partition prepared: the base name chosen (history)
    timecode        \* the last call of GenerateTimecode: instant, rate, result

vars == << pc, exitMsg, sidecar, gen, ubvBytes, cacheExists, extractAudio,
           extractVideo, videoTrackNum, forceRate, createMP4, source, lookedUp,
           childState, exitStatus, waited, scanPos, firstLine,
           partitions, current, detached, returned, pIdx, videoFilename,
           audioFilename, mp4Filename, ubvOpen, videoSink, audioSink, buffer,
           fIdx, frameDataRead, disk, created, routed, reads, muxed, named,
           timecode >>

flagVars == << extractAudio, extractVideo, videoTrackNum, forceRate, createMP4 >>

inputVars == << ubvBytes, cacheExists, flagVars >>

readerVars == << sidecar, gen, source, lookedUp, childState, exitStatus, waited,
                 scanPos, firstLine, partitions, current, detached, returned >>

demuxVars == << pIdx, videoFilename, audioFilename, mp4Filename, ubvOpen,
                videoSink, audioSink, buffer, fIdx, frameDataRead,
                disk, created, routed, reads, muxed >>

-----------------------------------------------------------------------------
(* Program constants                                                       *)

TrackAudio == 1000
TrackVideo == 7
TrackVideoHevcUnknown == 1003

FIELD_TRACK_ID == 1
\* the offset read from the column of the size
SizeColumnAsOffset == 3 + 1
FIELD_OFFSET == 3
FIELD_SIZE == 4
FIELD_WC == 7
FIELD_WC_TBC == 8

\* len(track.RateProbeWindow)
RateProbeWindowLen == 32

\* a limit that lets a probed rate of 100 through
WideRateLimit == 76 + 25
\* "rate > 0 && rate < 76"
RateLimit == 76

-----------------------------------------------------------------------------
(* Go integer arithmetic: / and % truncate toward zero                     *)

GoDiv(a, b) ==
    IF a >= 0
    THEN IF b > 0 THEN a \div b ELSE -(a \div (-b))
    ELSE IF b > 0 THEN -((-a) \div b) ELSE (-a) \div (-b)

GoMod(a, b) == a - b * GoDiv(a, b)

\* a conversion that drops the fraction of the second
TimeUnixWholeSeconds(sec, nsec) == [sec |-> sec, nsec |-> 0]
\* time.Unix(sec, nsec): nsec outside [0, 1e9) is carried into sec
TimeUnix(sec, nsec) ==
    IF nsec < 0
    THEN [sec |-> sec - 1, nsec |-> nsec + 1000000000]
    ELSE [sec |-> sec, nsec |-> nsec]

\* the zero time.Time of a track that has not seen a frame (year 1: earlier
\* than every instant the sidecars of the model denote)
ZeroTime == [sec |-> -2147483647, nsec |-> 0]

-----------------------------------------------------------------------------
(* Sidecar lines.  A line is its leading character class and the tokens    *)
(* strings.Fields returns; a token is a decimal integer or other text.     *)

IntTok(n) == [int |-> TRUE, v |-> n]
TxtTok == [int |-> FALSE, v |-> 0]

\* a conversion that reads 0 where there is no integer
AtoiLenient(tok) == [err |-> FALSE, v |-> tok.v]
\* strconv.Atoi / strconv.ParseInt of a token
Atoi(tok) == [err |-> ~tok.int, v |-> tok.v]

MarkerLine == [k |-> "marker", fields |-> << >>]
HeaderLine == [k |-> "text", fields |-> << TxtTok, TxtTok, TxtTok >>]
EmptyLine == [k |-> "empty", fields |-> << >>]

\* an indented line "  V  tid  kf  off  size  dts  cts  wc  tbc"
FrameLine(typ, tid, off, size, wc, tbc) ==
    [k |-> "indented",
     fields |-> << typ, tid, IntTok(0), off, size, IntTok(0), IntTok(0), wc, tbc >>]

Frame(tid, off, size, wc, tbc) ==
    FrameLine(TxtTok, IntTok(tid), IntTok(off), IntTok(size), IntTok(wc), IntTok(tbc))

\* Go indexes fields from 0
Field(fields, i) == fields[i + 1]
HasField(fields, i) == i + 1 <= Len(fields)

-----------------------------------------------------------------------------
(* ubv/ubvfile.go                                                          *)

UbvFrame(tid, off, size) == [TrackNumber |-> tid, Offset |-> off, Size |-> size]

\* a new track that already counts a frame
NewTrackCounted(isVideo, tid) ==
    [IsVideo |-> isVideo, TrackNumber |-> tid, StartTimecode |-> ZeroTime,
     FrameCount |-> 1, Rate |-> 0,
     RateProbeWindow |-> [i \in 1..RateProbeWindowLen |-> 0],
     RateProbeLastFrameWC |-> 0, LastTimecode |-> ZeroTime]
\* &UbvTrack{IsVideo, TrackNumber, FrameCount: 0}, ubvinfo.go lines 155-160
NewTrack(isVideo, tid) ==
    [IsVideo |-> isVideo, TrackNumber |-> tid, StartTimecode |-> ZeroTime,
     FrameCount |-> 0, Rate |-> 0,
     RateProbeWindow |-> [i \in 1..RateProbeWindowLen |-> 0],
     RateProbeLastFrameWC |-> 0, LastTimecode |-> ZeroTime]

NewPartition(index) ==
    [Index |-> index, FrameCount |-> 0, Tracks |-> << >>,
     VideoTrackCount |-> 0, AudioTrackCount |-> 0, Frames |-> << >>]

RECURSIVE GuessFrom(_, _, _, _, _)
GuessFrom(durations, i, counts, frequency, mostFrequent) ==
    IF i > Len(durations) THEN mostFrequent
    ELSE LET val == durations[i] IN
         IF val > 0
         THEN LET c == (IF val \in DOMAIN counts THEN counts[val] ELSE 0) + 1
                  counts2 == [x \in DOMAIN counts \cup {val} |->
                                 IF x = val THEN c ELSE counts[x]]
              IN IF c > frequency
                 THEN GuessFrom(durations, i + 1, counts2, c, val)
                 ELSE GuessFrom(durations, i + 1, counts2, frequency, mostFrequent)
         ELSE GuessFrom(durations, i + 1, counts, frequency, mostFrequent)

guessVideoRate(durations) == GuessFrom(durations, 1, << >>, 0, 0)

Ok(track) == [status |-> "ok", msg |-> "", track |-> track]
Fatal(msg, track) == [status |-> "fatal", msg |-> msg, track |-> track]
Panic(msg, track) == [status |-> "panic", msg |-> msg, track |-> track]

\* the probe branch "track.Rate == 0 && track.IsVideo" of a frame after the first
ProbeRate(track, wc, tbc) ==
    IF track.FrameCount < RateProbeWindowLen
    THEN IF wc - track.RateProbeLastFrameWC = 0
         THEN Panic("integer divide by zero", track)
         ELSE Ok([track EXCEPT
                    !.RateProbeWindow[track.FrameCount + 1] =
                        GoDiv(tbc, wc - track.RateProbeLastFrameWC),
                    !.RateProbeLastFrameWC = wc])
    ELSE LET rate == guessVideoRate(track.RateProbeWindow) IN
         IF rate > 0 /\ rate < RateLimit THEN Ok([track EXCEPT !.Rate = rate])
         ELSE IF rate = 0 THEN Ok([track EXCEPT !.Rate = 1])
         ELSE Fatal("Video Rate Probe", track)

extractTimecodeAndRate(fields, track) ==
    IF ~HasField(fields, FIELD_WC) THEN Panic("index out of range", track)
    ELSE IF Atoi(Field(fields, FIELD_WC)).err THEN Fatal("Error parsing WC field", track)
    ELSE IF ~HasField(fields, FIELD_WC_TBC) THEN Panic("index out of range", track)
    ELSE IF Atoi(Field(fields, FIELD_WC_TBC)).err THEN Fatal("Error parsing TBC field", track)
    ELSE
    LET wc == Atoi(Field(fields, FIELD_WC)).v
        tbc == Atoi(Field(fields, FIELD_WC_TBC)).v
    IN
    IF tbc = 0 THEN Fatal("Parsed TBC returned 0", track)
    ELSE
    LET utcMillis == GoDiv(wc * 1000, tbc)
        frameTimecode == TimeUnix(GoDiv(utcMillis, 1000), GoMod(utcMillis, 1000) * 1000000)
        r == IF track.FrameCount = 0
             THEN Ok(IF ~track.IsVideo
                     THEN [track EXCEPT !.StartTimecode = frameTimecode, !.Rate = tbc]
                     ELSE [track EXCEPT !.StartTimecode = frameTimecode,
                                        !.RateProbeLastFrameWC = wc])
             ELSE IF track.Rate = 0 /\ track.IsVideo
             THEN ProbeRate(track, wc, tbc)
             ELSE Ok(track)
    IN IF r.status = "ok"
       THEN Ok([r.track EXCEPT !.LastTimecode = frameTimecode])
       ELSE r

-----------------------------------------------------------------------------
(* ubv/ubvfile.go: GenerateTimecode.  A float32 is the exact value m * 2^e *)
(* of its record [m, e]; every operation rounds its exact result to 24     *)
(* significant bits, ties to even, as IEEE 754 single precision does.      *)

RECURSIVE BitLen(_)
BitLen(n) == IF n = 0 THEN 0 ELSE 1 + BitLen(n \div 2)

\* n / 2^d rounded to the nearest integer, ties to even; sticky says that the
\* exact value lies above n by less than one unit
RoundHalfEven(n, d, sticky) ==
    IF d = 0 THEN n
    ELSE LET q == n \div 2^d
             r == n % 2^d
             half == 2^(d - 1)
         IN IF r > half \/ (r = half /\ (sticky \/ q % 2 = 1)) THEN q + 1 ELSE q

\* the float32 nearest to the exact value (n + sticky) * 2^e
Round24(n, e, sticky) ==
    LET d == IF BitLen(n) > 24 THEN BitLen(n) - 24 ELSE 0 IN
    [m |-> RoundHalfEven(n, d, sticky), e |-> e + d]

\* float32(n) of an int
Float32(n) == Round24(n, 0, FALSE)

\* long division: the quotient bits of r * 2^k / d until q has 26 bits
RECURSIVE DivBits(_, _, _, _)
DivBits(q, r, k, d) ==
    IF q >= 2^25 THEN [q |-> q, r |-> r, k |-> k]
    ELSE IF 2 * r >= d THEN DivBits(2 * q + 1, 2 * r - d, k + 1, d)
    ELSE DivBits(2 * q, 2 * r, k + 1, d)

\* a / float32(d) for an int d that float32 holds exactly and that exceeds a.m
Float32Div(a, d) ==
    IF a.m = 0 THEN a
    ELSE LET b == DivBits(0, a.m, 0, d) IN Round24(b.q, a.e - b.k, b.r # 0)

\* a * float32(n) for an int n that float32 holds exactly
Float32Mul(a, n) == Round24(a.m * n, a.e, FALSE)

\* a + 1, computed in units of 2^-24
Float32Inc(a) ==
    IF a.e >= 0 THEN Round24(a.m * 2^a.e + 1, 0, FALSE)
    ELSE IF a.e >= -24 THEN Round24(2^24 + a.m * 2^(a.e + 24), -24, FALSE)
    ELSE LET s == -(a.e + 24) IN
         IF s > 30 THEN Round24(2^24, -24, a.m # 0)
         ELSE Round24(2^24 + a.m \div 2^s, -24, a.m % 2^s # 0)

\* a "%.0f" that drops the fraction
FormatF0Truncated(a) ==
    IF a.e >= 0 THEN a.m * 2^a.e ELSE a.m \div 2^(-a.e)

\* the integer "%.0f" prints: the exact value rounded, ties to even
FormatF0(a) ==
    IF a.e >= 0 THEN a.m * 2^a.e ELSE RoundHalfEven(a.m, -a.e, FALSE)

DigitChar(d) == << "0", "1", "2", "3", "4", "5", "6", "7", "8", "9" >>[d + 1]

RECURSIVE Decimal(_)
Decimal(n) ==
    IF n < 10 THEN << DigitChar(n) >>
    ELSE Decimal(n \div 10) \o << DigitChar(n % 10) >>

\* a verb without the width: no padding
Unpadded(n) == Decimal(n)
\* the verbs %02d and %02.0f: at least two digits, padded with a zero
Pad2(n) == IF n < 10 THEN << "0" >> \o Decimal(n) ELSE Decimal(n)

\* time.Time.Format("15:04:05") of an instant, the zone's offset being zero
Format150405(t) ==
    LET day == t.sec % 86400 IN
    Pad2(day \div 3600) \o << ":" >> \o Pad2((day % 3600) \div 60)
    \o << ":" >> \o Pad2(day % 60)

\* float32(Nanosecond()) / float32(1000000000.0) * float32(framerate) + 1
FramePart(nsec, framerate) ==
    Float32Inc(Float32Mul(Float32Div(Float32(nsec), 1000000000), framerate))

\* the same expression on a build that fuses the multiplication and the
\* addition into one operation, which rounds once (arm64, GOAMD64=v3)
FusedFramePart(nsec, framerate) ==
    LET q == Float32Div(Float32(nsec), 1000000000) IN
    Float32Inc([m |-> q.m * framerate, e |-> q.e])

\* the frame parts the builds of the program can compute
FrameParts(nsec, framerate) ==
    { FramePart(nsec, framerate), FusedFramePart(nsec, framerate) }

\* the results of GenerateTimecode, one per frame part
GenerateTimecode(startTimecode, framerate) ==
    { Format150405(startTimecode) \o << "." >> \o Pad2(FormatF0(x)) :
        x \in FrameParts(startTimecode.nsec, framerate) }

\* a call of GenerateTimecode: its arguments and its result
NoTimecode == [t |-> ZeroTime, rate |-> 0, out |-> << >>]
Stamp(t, rate) ==
    { [t |-> t, rate |-> rate, out |-> out] : out \in GenerateTimecode(t, rate) }

-----------------------------------------------------------------------------
(* ubv/ubvinfo.go: parseUbvInfo                                            *)

PartOk(part) == [status |-> "ok", msg |-> "", part |-> part]
PartFatal(msg, part) == [status |-> "fatal", msg |-> msg, part |-> part]
PartPanic(msg, part) == [status |-> "panic", msg |-> msg, part |-> part]

\* a parser that takes every track but the audio track for a video track
AnyVideoTrack(tid) == tid # TrackAudio
IsRecognisedVideoTrack(tid) == tid = TrackVideo \/ tid = TrackVideoHevcUnknown

\* current.Tracks[tid], created (and counted) when absent
WithTrack(part, tid) ==
    IF tid \in DOMAIN part.Tracks THEN part
    ELSE LET track == NewTrack(IsRecognisedVideoTrack(tid), tid) IN
         [part EXCEPT
            !.Tracks = [t \in DOMAIN part.Tracks \cup {tid} |->
                           IF t = tid THEN track ELSE part.Tracks[t]],
            !.VideoTrackCount = IF track.IsVideo THEN @ + 1 ELSE @,
            !.AudioTrackCount = IF track.IsVideo THEN @ ELSE @ + 1]

\* the body of the "line starts with whitespace" branch, applied to current
ParseFrame(fields, part) ==
    IF ~HasField(fields, FIELD_TRACK_ID) THEN PartPanic("index out of range", part)
    ELSE IF Atoi(Field(fields, FIELD_TRACK_ID)).err
         THEN PartFatal("Error parsing track number", part)
    ELSE IF ~HasField(fields, FIELD_OFFSET) THEN PartPanic("index out of range", part)
    ELSE IF Atoi(Field(fields, FIELD_OFFSET)).err
         THEN PartFatal("Error parsing field offset", part)
    ELSE IF ~HasField(fields, FIELD_SIZE) THEN PartPanic("index out of range", part)
    ELSE IF Atoi(Field(fields, FIELD_SIZE)).err
         THEN PartFatal("Error parsing frame size", part)
    ELSE
    LET frame == UbvFrame(Atoi(Field(fields, FIELD_TRACK_ID)).v,
                          Atoi(Field(fields, FIELD_OFFSET)).v,
                          Atoi(Field(fields, FIELD_SIZE)).v)
        tid == frame.TrackNumber
    IN
    IF ~IsRecognisedVideoTrack(tid) /\ tid # TrackAudio
    THEN PartFatal("Encountered unrecognised track number", part)
    ELSE
    LET p1 == WithTrack(part, tid)
        r == extractTimecodeAndRate(fields, p1.Tracks[tid])
    IN
    IF r.status # "ok"
    THEN [status |-> r.status, msg |-> r.msg, part |-> p1]
    ELSE PartOk([p1 EXCEPT
                   !.FrameCount = @ + 1,
                   !.Tracks[tid] = [r.track EXCEPT !.FrameCount = @ + 1],
                   !.Frames = Append(@, frame)])

\* One iteration of "for scanner.Scan()".  ps is the parser's state: firstLine,
\* partitions, the partition `current` points to (0: the initial partition,
\* which is in no list) and that initial partition.
ParseLine(line, ps) ==
    IF ps.firstLine
    THEN [status |-> "ok", msg |-> "", ps |-> [ps EXCEPT !.firstLine = FALSE]]
    ELSE IF line.k = "marker"
    THEN [status |-> "ok", msg |-> "",
          ps |-> [ps EXCEPT !.partitions = Append(@, NewPartition(Len(ps.partitions))),
                            !.current = Len(ps.partitions) + 1]]
    ELSE IF line.k = "indented"
    THEN LET cur == IF ps.current = 0 THEN ps.detached ELSE ps.partitions[ps.current]
             r == ParseFrame(line.fields, cur)
         IN [status |-> r.status, msg |-> r.msg,
             ps |-> IF r.status # "ok" THEN ps
                    ELSE IF ps.current = 0 THEN [ps EXCEPT !.detached = r.part]
                    ELSE [ps EXCEPT !.partitions[ps.current] = r.part]]
    ELSE [status |-> "ok", msg |-> "", ps |-> ps]

-----------------------------------------------------------------------------
(* Bounds of the model and the sidecar lines a run draws from              *)

\* lines after the header in a sidecar of the "run" family
MaxLines == 3
\* frame rates GenerateTimecode is called with: 1..MaxRate
MaxRate == 99
\* video frames in a sidecar of the "probe" family
MaxProbeFrames == 34
\* changes of the inter-frame WC step in a sidecar of the "probe" family
MaxSwitches == 1
\* lines the analyzer may have written that the scanner has not yet read
PipeCap == 1

\* timebase of the video lines (WC ticks per second)
VideoTbc == 1000

V7a == Frame(TrackVideo, 0, 5, 1000, VideoTbc)
V7b == Frame(TrackVideo, 7, 6, 1040, VideoTbc)
A1 == Frame(TrackAudio, 5, 2, 48000, 48000)
U42 == Frame(42, 0, 5, 1000, VideoTbc)

H1 == Frame(TrackVideoHevcUnknown, 0, 5, 1000, VideoTbc)

RunLines == { MarkerLine, V7a, V7b, H1, A1, U42 }

\* an audio line whose WC is not a whole number of milliseconds
A2 == Frame(TrackAudio, 5, 2, 48001, 48000)

\* the lines of the "lines" family, read by the Index Reader alone: as above,
\* with an empty line and a line of text, which the parser ignores
IndexLines == { MarkerLine, EmptyLine, HeaderLine, V7a, V7b, A1, A2, U42 }

\* the .ubv file the run family's lines describe: a video frame of one NAL,
\* an audio packet, a video frame of one NAL; and that file cut short
RunFile == << 0, 0, 0, 1, 65 >> \o << 200, 201 >> \o << 0, 0, 0, 2, 66, 67 >>

RunFiles == { RunFile, SubSeq(RunFile, 1, 9) }

\* frames of a partition handed to the demuxer on its own
MaxDemuxFrames == 2
\* partitions of an index handed to RemuxCLI's loop on its own
MaxPartitions == 2

\* a video line in another second than V7a and V7b
V7c == Frame(TrackVideo, 0, 5, 3000, VideoTbc)

\* the frame lines of one partition of such an index
PartitionShapes == { << V7a >>, << V7b >>, << V7a, A1 >>, << V7c >> }

\* the sidecar of the partitions with the given frame lines
RECURSIVE RemuxSidecar(_)
RemuxSidecar(shapes) ==
    IF shapes = << >> THEN << HeaderLine >>
    ELSE RemuxSidecar(SubSeq(shapes, 1, Len(shapes) - 1))
         \o << MarkerLine >> \o shapes[Len(shapes)]

\* frame lines with a field that is no integer, in column TID, OFFSET, SIZE,
\* WC and WC_TBC in turn, and a frame line with a WC_TBC of zero
BadTid == FrameLine(TxtTok, TxtTok, IntTok(0), IntTok(5), IntTok(1000), IntTok(VideoTbc))
BadOffset == FrameLine(TxtTok, IntTok(7), TxtTok, IntTok(5), IntTok(1000), IntTok(VideoTbc))
BadSize == FrameLine(TxtTok, IntTok(7), IntTok(0), TxtTok, IntTok(1000), IntTok(VideoTbc))
BadWc == FrameLine(TxtTok, IntTok(7), IntTok(0), IntTok(5), TxtTok, IntTok(VideoTbc))
BadTbc == FrameLine(TxtTok, IntTok(7), IntTok(0), IntTok(5), IntTok(1000), TxtTok)
ZeroTbc == Frame(TrackVideo, 0, 5, 1000, 0)

\* the first n fields of a frame line: n = 0 is a line of spaces
Truncated(line, n) == [k |-> "indented", fields |-> SubSeq(line.fields, 1, n)]

\* the lines of the "malformed" family, read by the Index Reader alone
MalformedLines ==
    { MarkerLine, V7a, BadTid, BadOffset, BadSize, BadWc, BadTbc, ZeroTbc }
    \cup { Truncated(V7a, n) : n \in { 0, 1, 4, 7, 8 } }

\* .ubv files handed to the demuxer on its own.  The first holds NAL units of
\* 1 and 2 bytes and an audio packet; the second a NAL unit of 1 byte, an
\* empty NAL unit and a length prefix with the sign bit set.
DemuxFiles ==
    { << 0, 0, 0, 1, 65 >> \o << 0, 0, 0, 2, 66, 67 >> \o << 200, 201 >>,
      << 0, 0, 0, 1, 65 >> \o << 0, 0, 0, 0 >> \o << 255, 255, 255, 255 >> }

\* << Offset, Size >> of the frames handed to the demuxer on its own
FrameExtents ==
    { << 0, 5 >>, << 0, 11 >>, << 11, 2 >>, << 0, 3 >>, << 0, 6 >> }

DemuxFrames ==
    { UbvFrame(t, e[1], e[2]) :
        t \in { TrackVideo, TrackVideoHevcUnknown, TrackAudio }, e \in FrameExtents }

\* the sidecar whose frame lines are the given frames, in one partition
DemuxSidecar(frames) ==
    << HeaderLine, MarkerLine >>
    \o [i \in 1..Len(frames) |->
          Frame(frames[i].TrackNumber, frames[i].Offset, frames[i].Size,
                1000 + 40 * i, VideoTbc)]

\* WC steps of the probe family: 25 fps, 100 fps, less than 1 fps, no step
ProbeSteps == { 40, 10, 2000, 0 }

GenRun == [mode |-> "run", wc |-> 0, step |-> 0, sw |-> 0]
GenProbe == [mode |-> "probe", wc |-> 0, step |-> 0, sw |-> 0]
GenNone == [mode |-> "none", wc |-> 0, step |-> 0, sw |-> 0]
GenLines == [mode |-> "lines", wc |-> 0, step |-> 0, sw |-> 0]
GenMalformed == [mode |-> "malformed", wc |-> 0, step |-> 0, sw |-> 0]

\* the lines that may follow the lines produced so far, with the generator
\* state each leads to
NextLines(sc, g) ==
    IF Len(sc) = 0 THEN { [line |-> HeaderLine, gen |-> g] }
    ELSE IF g.mode = "run"
    THEN IF Len(sc) < 1 + MaxLines
         THEN { [line |-> l, gen |-> g] : l \in RunLines }
         ELSE { }
    ELSE IF g.mode = "lines"
    THEN IF Len(sc) < 1 + MaxLines
         THEN { [line |-> l, gen |-> g] : l \in IndexLines }
         ELSE { }
    ELSE IF g.mode = "malformed"
    THEN IF Len(sc) < 1 + MaxLines
         THEN { [line |-> l, gen |-> g] : l \in MalformedLines }
         ELSE { }
    ELSE IF g.mode # "probe" THEN { }
    ELSE IF Len(sc) = 1 THEN { [line |-> MarkerLine, gen |-> g] }
    ELSE IF Len(sc) = 2
    THEN { [line |-> Frame(TrackVideo, 0, 5, 1000, VideoTbc),
            gen |-> [g EXCEPT !.wc = 1000]] }
    ELSE IF Len(sc) < 2 + MaxProbeFrames
    THEN { [line |-> Frame(TrackVideo, 0, 5, g.wc + d, VideoTbc),
            gen |-> [g EXCEPT !.wc = g.wc + d, !.step = d,
                              !.sw = IF Len(sc) = 3 \/ d = g.step THEN @ ELSE @ + 1]] :
           d \in { e \in ProbeSteps : Len(sc) = 3 \/ e = g.step \/ g.sw < MaxSwitches } }
    ELSE { }

-----------------------------------------------------------------------------
(* Process exit                                                            *)

Running == pc \notin { "fatal", "panic", "done" }

\* log.Fatal: os.Exit(1)
LogFatal(msg) == pc' = "fatal" /\ exitMsg' = msg

-----------------------------------------------------------------------------
(* ubv/ubvinfo.go: Analyse, runUbvInfo, parseUbvInfoFile                   *)

InitialParser ==
    [firstLine |-> TRUE, partitions |-> << >>, current |-> 0,
     detached |-> NewPartition(0)]

\* the parser's state after the given lines, none of which ends the parse
RECURSIVE ParseAll(_, _)
ParseAll(lines, ps) ==
    IF lines = << >> THEN ps
    ELSE ParseAll(Tail(lines), ParseLine(Head(lines), ps).ps)

ParserState ==
    [firstLine |-> firstLine, partitions |-> partitions,
     current |-> current, detached |-> detached]

SetParserState(ps) ==
    /\ firstLine' = ps.firstLine
    /\ partitions' = ps.partitions
    /\ current' = ps.current
    /\ detached' = ps.detached

\* an Analyse that runs the analyzer whether or not the cache exists
AlwaysRunUbvInfo(exists) == "runUbvInfo"
\* "if _, err := os.Stat(cachedUbvInfoFile); err != nil": run the analyzer,
\* else parse the cached sidecar
AnalysePath(exists) == IF ~exists THEN "runUbvInfo" ELSE "parseUbvInfoFile"

\* os.Stat(ubvFile + ".txt") answers whether the cached sidecar exists
Analyse ==
    /\ pc = "Analyse"
    /\ \E exists \in BOOLEAN :
         /\ cacheExists' = exists
         /\ pc' = AnalysePath(exists)
    /\ UNCHANGED << named, timecode, exitMsg, ubvBytes, flagVars, readerVars, demuxVars >>

\* getUbvInfoCommand, exec.Command, cmd.StdoutPipe, cmd.Start
runUbvInfo ==
    /\ pc = "runUbvInfo"
    /\ \E outcome \in { "path1", "path2", "notFound", "pipeError", "startError" } :
         /\ lookedUp' = TRUE
         /\ IF outcome = "notFound"
            THEN LogFatal("ubnt_ubvinfo not on PATH")
            ELSE IF outcome = "pipeError"
            THEN LogFatal("Error creating StdoutPipe for Cmd")
            ELSE IF outcome = "startError"
            THEN LogFatal("ubnt_ubvinfo command failed")
            ELSE pc' = "parse" /\ UNCHANGED exitMsg
         /\ source' = IF outcome \in { "path1", "path2" } THEN "child" ELSE source
         /\ childState' = IF outcome \in { "path1", "path2" } THEN "running" ELSE childState
    /\ UNCHANGED << named, timecode,
                    inputVars, sidecar, gen, exitStatus, waited, scanPos, firstLine,
                    partitions, current, detached, returned, demuxVars >>

\* os.Open of the cached sidecar
parseUbvInfoFile ==
    /\ pc = "parseUbvInfoFile"
    /\ \E opened \in BOOLEAN :
         IF opened
         THEN pc' = "parse" /\ source' = "file" /\ UNCHANGED exitMsg
         ELSE LogFatal("open sidecar") /\ UNCHANGED source
    /\ UNCHANGED << named, timecode,
                    inputVars, sidecar, gen, lookedUp, childState, exitStatus, waited,
                    scanPos, firstLine, partitions, current, detached, returned,
                    demuxVars >>

\* the analyzer prints one more line into the pipe
ChildWrite ==
    /\ Running
    /\ childState = "running"
    /\ Len(sidecar) - scanPos < PipeCap
    /\ \E n \in NextLines(sidecar, gen) :
         /\ sidecar' = Append(sidecar, n.line)
         /\ gen' = n.gen
    /\ UNCHANGED << named, timecode,
                    pc, exitMsg, inputVars, source, lookedUp, childState, exitStatus,
                    waited, scanPos, firstLine, partitions, current, detached,
                    returned, demuxVars >>

\* the analyzer closes its standard output
ChildClose ==
    /\ Running
    /\ childState = "running"
    /\ childState' = "closed"
    /\ UNCHANGED << named, timecode,
                    pc, exitMsg, inputVars, sidecar, gen, source, lookedUp, exitStatus,
                    waited, scanPos, firstLine, partitions, current, detached,
                    returned, demuxVars >>

\* the analyzer terminates
ChildExit ==
    /\ Running
    /\ childState = "closed"
    /\ childState' = "exited"
    /\ \E status \in { 0, 1 } : exitStatus' = status
    /\ UNCHANGED << named, timecode,
                    pc, exitMsg, inputVars, sidecar, gen, source, lookedUp, waited,
                    scanPos, firstLine, partitions, current, detached, returned,
                    demuxVars >>

\* the effect of one line on the parser
Scanned(line) ==
    LET r == ParseLine(line, ParserState) IN
    /\ scanPos' = scanPos + 1
    /\ IF r.status = "ok"
       THEN SetParserState(r.ps) /\ UNCHANGED << pc, exitMsg >>
       ELSE /\ pc' = r.status
            /\ exitMsg' = r.msg
            /\ UNCHANGED << firstLine, partitions, current, detached >>

\* scanner.Scan() returns a line: the next line of the cached sidecar, or the
\* oldest unread line of the pipe
ScanLine ==
    /\ pc = "parse"
    /\ \/ /\ source = "file"
          /\ \E n \in NextLines(sidecar, gen) :
               /\ sidecar' = Append(sidecar, n.line)
               /\ gen' = n.gen
               /\ Scanned(n.line)
       \/ /\ source = "child"
          /\ scanPos < Len(sidecar)
          /\ Scanned(sidecar[scanPos + 1])
          /\ UNCHANGED << sidecar, gen >>
    /\ UNCHANGED << named, timecode,
                    inputVars, source, lookedUp, childState, exitStatus, waited,
                    returned, demuxVars >>

\* scanner.Scan() returns false at the end of the stream or on a read error;
\* parseUbvInfo returns the index unless scanner.Err() is set
ScanEnd ==
    /\ pc = "parse"
    /\ scanPos = Len(sidecar)
    /\ source = "child" => childState # "running"
    /\ \E readError \in BOOLEAN :
         IF readError
         THEN LogFatal("error reading ubv") /\ UNCHANGED returned
         ELSE /\ pc' = IF source = "child" THEN "cmdWait" ELSE "indexed"
              /\ returned' = (source = "file")
              /\ UNCHANGED exitMsg
    /\ UNCHANGED << named, timecode,
                    inputVars, sidecar, gen, source, lookedUp, childState, exitStatus,
                    waited, scanPos, firstLine, partitions, current, detached,
                    demuxVars >>

\* a runUbvInfo that drops the error of cmd.Wait()
WaitErrorDropped(status) == FALSE
\* "if err := cmd.Wait(); err != nil": exec reports a non-zero exit status
CmdWaitFails(status) == status # 0

\* cmd.Wait(): blocks until the child has terminated
CmdWait ==
    /\ pc = "cmdWait"
    /\ childState = "exited"
    /\ waited' = TRUE
    /\ IF CmdWaitFails(exitStatus)
       THEN LogFatal("Error waiting for ubv") /\ UNCHANGED returned
       ELSE pc' = "indexed" /\ returned' = TRUE /\ UNCHANGED exitMsg
    /\ UNCHANGED << named, timecode,
                    inputVars, sidecar, gen, source, lookedUp, childState, exitStatus,
                    scanPos, firstLine, partitions, current, detached, demuxVars >>

-----------------------------------------------------------------------------
(* Output files and sinks                                                  *)

NoFile == [set |-> FALSE, base |-> 0, ext |-> ""]
FileName(base, ext) == [set |-> TRUE, base |-> base, ext |-> ext]

\* a *bufio.Writer over an *os.File; present = FALSE is the nil writer.  The
\* outputs of the model stay below bufio's buffer size, so Write only buffers.
NoSink == [present |-> FALSE, closed |-> FALSE, name |-> NoFile, buf |-> << >>]
NewSink(name) == [present |-> TRUE, closed |-> FALSE, name |-> name, buf |-> << >>]

Put(d, name, bytes) ==
    [n \in DOMAIN d \cup {name} |-> IF n = name THEN bytes ELSE d[n]]

SinkWrite(s, bytes) == [s EXCEPT !.buf = @ \o bytes]

\* bufio.Writer.Flush: the disk after it, and the writer after it
FlushTo(s, d) ==
    IF s.present /\ ~s.closed /\ s.name \in DOMAIN d
    THEN Put(d, s.name, d[s.name] \o s.buf)
    ELSE d
Flushed(s) == IF s.present /\ ~s.closed THEN [s EXCEPT !.buf = << >>] ELSE s

\* os.File.Close
Closed(s) == IF s.present THEN [s EXCEPT !.closed = TRUE] ELSE s

\* the deferred calls of DemuxSinglePartitionToNewFiles, last registered first:
\* audioFile.Flush, audioFileRaw.Close, videoFile.Flush, videoFileRaw.Close,
\* ubvFile.Close
DeferredVideo(s) == Closed(Flushed(s))
DeferredAudio(s) == Closed(Flushed(s))

RunDeferred ==
    /\ disk' = FlushTo(videoSink, FlushTo(audioSink, disk))
    /\ audioSink' = DeferredAudio(audioSink)
    /\ videoSink' = DeferredVideo(videoSink)
    /\ ubvOpen' = FALSE

\* a runtime panic inside the demuxer: the deferred calls run, the process ends
DemuxPanic(msg) == pc' = "panic" /\ exitMsg' = msg /\ RunDeferred

-----------------------------------------------------------------------------
(* remux.go: RemuxCLI up to the call of the demuxer                        *)

\* "Optionally apply the user's forced framerate"
ForceRate(parts, rate) ==
    [i \in 1..Len(parts) |->
        [parts[i] EXCEPT
           !.Tracks = [t \in DOMAIN parts[i].Tracks |->
                          IF parts[i].Tracks[t].IsVideo
                          THEN [parts[i].Tracks[t] EXCEPT !.Rate = rate]
                          ELSE parts[i].Tracks[t]]]]

\* lines 71-97: log the first partition, apply force-rate, enter the loop
RemuxIndexed ==
    /\ pc = "indexed"
    /\ partitions' = IF forceRate > 0 THEN ForceRate(partitions, forceRate)
                     ELSE partitions
    /\ pIdx' = 1
    /\ pc' = IF Len(partitions) >= 1 THEN "prepare" ELSE "done"
    /\ UNCHANGED << named, timecode,
                    exitMsg, inputVars, sidecar, gen, source, lookedUp, childState,
                    exitStatus, waited, scanPos, firstLine, current, detached,
                    returned, videoFilename, audioFilename, mp4Filename, ubvOpen,
                    videoSink, audioSink, buffer, fIdx, frameDataRead, disk,
                    created, routed, reads, muxed >>

\* the instant time.Now() returns when no track supplies a start timecode
NowTime == [sec |-> 9, nsec |-> 0]

\* the instants getStartTimecode may return: the first track, in the map's
\* iteration order, that satisfies the test, else time.Now()
getStartTimecode(partition, trackNum) ==
    LET hits == { t \in DOMAIN partition.Tracks :
                    partition.VideoTrackCount = 0
                    \/ (partition.Tracks[t].IsVideo
                        /\ partition.Tracks[t].TrackNumber = trackNum) }
    IN IF hits = { } THEN { NowTime }
       ELSE { partition.Tracks[t].StartTimecode : t \in hits }

\* Format(time.RFC3339): the name carries the instant to the second
Basename(tc) == tc.sec

\* a naming that gives a file to every kind of track the partition holds
WantedWhenPresent(extract, trackCount) == trackCount > 0
\* lines 121, 125: a bitstream file is named when its flag is set and the
\* partition counts a track of its kind
Wanted(extract, trackCount) == extract /\ trackCount > 0

\* lines 100-132: the output names of partition pIdx
PreparePartition ==
    /\ pc = "prepare"
    /\ LET partition == partitions[pIdx] IN
       \E tc \in getStartTimecode(partition, videoTrackNum) :
         /\ videoFilename' = IF Wanted(extractVideo, partition.VideoTrackCount)
                             THEN FileName(Basename(tc), "h264") ELSE NoFile
         /\ audioFilename' = IF Wanted(extractAudio, partition.AudioTrackCount)
                             THEN FileName(Basename(tc), "aac") ELSE NoFile
         /\ mp4Filename' = IF createMP4 THEN FileName(Basename(tc), "mp4") ELSE NoFile
         /\ named' = Append(named, Basename(tc))
    /\ pc' = "demuxOpen"
    /\ UNCHANGED << timecode, exitMsg, inputVars, readerVars, pIdx, ubvOpen, videoSink,
                    audioSink, buffer, fIdx, frameDataRead, disk, created, routed,
                    reads, muxed >>

-----------------------------------------------------------------------------
(* demux/demux.go                                                          *)

\* a separator of no bytes
NoStartCode == << >>
\* the NAL separator, lines 70, 109
StartCode == << 0, 0, 0, 1 >>

\* the n bytes of the .ubv file at 0-based offset lo
Slice(bytes, lo, n) == SubSeq(bytes, lo + 1, lo + n)

\* binary.Read(ubvFile, binary.BigEndian, &nalSize) with nalSize an int32
Int32BE(b) ==
    (IF b[1] >= 128 THEN b[1] - 256 ELSE b[1]) * 16777216
    + b[2] * 65536 + b[3] * 256 + b[4]

\* io.ReadFull of n bytes at offset lo succeeds
CanRead(bytes, lo, n) == n = 0 \/ lo + n <= Len(bytes)

RECURSIVE MaxFrameSize(_, _)
MaxFrameSize(frames, bufferSize) ==
    IF frames = << >> THEN bufferSize
    ELSE MaxFrameSize(Tail(frames),
                      IF Head(frames).Size > bufferSize THEN Head(frames).Size
                      ELSE bufferSize)

\* the content of a file that has not been opened yet
NotRead == << -1 >>

\* lines 12-50: open the input (which shows its content), create the sinks
DemuxSinglePartitionToNewFiles ==
    /\ pc = "demuxOpen"
    /\ LET partition == partitions[pIdx]
           wantVideo == videoFilename.set /\ partition.VideoTrackCount > 0
           wantAudio == audioFilename.set /\ partition.AudioTrackCount > 0
       IN
       \E outcome \in { "ok", "ubvError" }
                      \cup (IF wantVideo THEN { "videoError" } ELSE { })
                      \cup (IF wantAudio THEN { "audioError" } ELSE { }),
          bytes \in (IF ubvBytes = NotRead THEN RunFiles ELSE { ubvBytes }) :
         LET madeVideo == wantVideo /\ outcome \in { "ok", "audioError" }
             madeAudio == wantAudio /\ outcome = "ok"
             d1 == IF madeVideo THEN Put(disk, videoFilename, << >>) ELSE disk
             d2 == IF madeAudio THEN Put(d1, audioFilename, << >>) ELSE d1
         IN
         /\ ubvBytes' = bytes
         /\ ubvOpen' = (outcome # "ubvError")
         /\ videoSink' = IF madeVideo THEN NewSink(videoFilename) ELSE NoSink
         /\ audioSink' = IF madeAudio THEN NewSink(audioFilename) ELSE NoSink
         /\ disk' = d2
         /\ created' = created
                       \cup (IF madeVideo THEN { videoFilename } ELSE { })
                       \cup (IF madeAudio THEN { audioFilename } ELSE { })
         /\ IF outcome = "ok" THEN pc' = "demux" /\ UNCHANGED exitMsg
            ELSE IF outcome = "ubvError" THEN LogFatal("Error opening UBV file")
            ELSE IF outcome = "videoError"
            THEN LogFatal("Error opening video bitstream output")
            ELSE LogFatal("Error opening audio bitstream output")
    /\ UNCHANGED << named, timecode,
                    cacheExists, flagVars, readerVars, pIdx, videoFilename,
                    audioFilename, mp4Filename, buffer, fIdx, frameDataRead, routed,
                    reads, muxed >>

\* lines 57-76: allocate the scratch buffer, write the opening NAL separator
DemuxSinglePartition ==
    /\ pc = "demux"
    /\ buffer' = MaxFrameSize(partitions[pIdx].Frames, 0)
    /\ fIdx' = 1
    /\ frameDataRead' = 0
    /\ routed' = << >>
    /\ reads' = [lo |-> 0, hi |-> 0]
    /\ IF videoSink.present
       THEN \E written \in BOOLEAN :
              IF written
              THEN /\ videoSink' = SinkWrite(videoSink, StartCode)
                   /\ pc' = "demuxFrame"
                   /\ UNCHANGED exitMsg
              ELSE /\ LogFatal("Failed to write output NAL Separator")
                   /\ UNCHANGED videoSink
       ELSE pc' = "demuxFrame" /\ UNCHANGED << exitMsg, videoSink >>
    /\ UNCHANGED << named, timecode,
                    inputVars, readerVars, pIdx, videoFilename, audioFilename,
                    mp4Filename, ubvOpen, audioSink, disk, created, muxed >>

\* a copy of the audio packet that leaves out the seek to frame.Offset
AudioPacketUnsought(bytes, frame) == Slice(bytes, 0, frame.Size)
\* lines 122-131: seek to frame.Offset, read frame.Size bytes, write them
AudioPacket(bytes, frame) == Slice(bytes, frame.Offset, frame.Size)

\* a routing that sends every video track's frames to the video sink
RouteAnyVideo(frame, trackNum, video, audio) ==
    IF IsRecognisedVideoTrack(frame.TrackNumber) /\ video.present THEN "video"
    ELSE IF frame.TrackNumber = TrackAudio /\ audio.present THEN "audio"
    ELSE "skip"
\* where a frame goes: lines 79, 118, 134
Route(frame, trackNum, video, audio) ==
    IF frame.TrackNumber = trackNum /\ video.present THEN "video"
    ELSE IF frame.TrackNumber = TrackAudio /\ audio.present THEN "audio"
    ELSE "skip"

\* the next frame of "for _, frame := range partition.Frames": an audio frame
\* is copied whole, a video frame enters the NAL loop, any other is skipped
DemuxFrame ==
    /\ pc = "demuxFrame"
    /\ fIdx <= Len(partitions[pIdx].Frames)
    /\ LET frame == partitions[pIdx].Frames[fIdx]
           to == Route(frame, videoTrackNum, videoSink, audioSink)
       IN
       /\ routed' = Append(routed, to)
       /\ frameDataRead' = 0
       /\ IF to = "video"
          THEN /\ IF 0 < frame.Size
                  THEN pc' = "demuxNal" /\ UNCHANGED fIdx
                  ELSE pc' = "demuxFrame" /\ fIdx' = fIdx + 1
               /\ reads' = [lo |-> frame.Offset, hi |-> frame.Offset]
               /\ UNCHANGED << exitMsg, audioSink, videoSink, disk, ubvOpen >>
          ELSE IF to = "audio"
          THEN IF frame.Offset < 0
               THEN /\ LogFatal("Failed to seek")
                    /\ UNCHANGED << fIdx, reads, audioSink, videoSink, disk, ubvOpen >>
               ELSE IF frame.Size < 0 \/ frame.Size > buffer
               THEN /\ DemuxPanic("slice bounds out of range")
                    /\ UNCHANGED << fIdx, reads >>
               ELSE IF ~CanRead(ubvBytes, frame.Offset, frame.Size)
               THEN /\ LogFatal("Failed to read")
                    /\ UNCHANGED << fIdx, reads, audioSink, videoSink, disk, ubvOpen >>
               ELSE \E written \in BOOLEAN :
                      /\ reads' = [lo |-> frame.Offset, hi |-> frame.Offset + frame.Size]
                      /\ UNCHANGED << videoSink, disk, ubvOpen >>
                      /\ IF written
                         THEN /\ audioSink' = SinkWrite(audioSink,
                                                AudioPacket(ubvBytes, frame))
                              /\ fIdx' = fIdx + 1
                              /\ UNCHANGED << pc, exitMsg >>
                         ELSE /\ LogFatal("Failed to write output audio data")
                              /\ UNCHANGED << fIdx, audioSink >>
          ELSE /\ fIdx' = fIdx + 1
               /\ UNCHANGED << pc, exitMsg, reads, audioSink, videoSink, disk, ubvOpen >>
    /\ UNCHANGED << named, timecode,
                    inputVars, readerVars, pIdx, videoFilename, audioFilename,
                    mp4Filename, buffer, created, muxed >>

\* the test of line 94, made before the 4 bytes of the length are counted
BeyondFrame(cursor, nalSize, size) == cursor + nalSize > size

\* what one NAL adds to the video sink: lines 109 and 113
NalOutput(payload) == payload \o StartCode

\* one iteration of "for frameDataRead < frame.Size": lines 86-115
DemuxNal ==
    /\ pc = "demuxNal"
    /\ LET frame == partitions[pIdx].Frames[fIdx]
           at == frame.Offset + frameDataRead
       IN
       IF at < 0
       THEN /\ LogFatal("Failed to seek")
            /\ UNCHANGED << fIdx, frameDataRead, reads, videoSink, audioSink, disk,
                            ubvOpen >>
       ELSE IF ~CanRead(ubvBytes, at, 4)
       THEN /\ LogFatal("Failed to read H.264 NAL size")
            /\ UNCHANGED << fIdx, frameDataRead, reads, videoSink, audioSink, disk,
                            ubvOpen >>
       ELSE
       LET nalSize == Int32BE(Slice(ubvBytes, at, 4)) IN
       IF BeyondFrame(frameDataRead, nalSize, frame.Size)
       THEN /\ LogFatal("Read goes beyond frame size")
            /\ reads' = [reads EXCEPT !.hi = at + 4]
            /\ UNCHANGED << fIdx, frameDataRead, videoSink, audioSink, disk, ubvOpen >>
       ELSE IF nalSize < 0 \/ nalSize > buffer
       THEN /\ DemuxPanic("slice bounds out of range")
            /\ frameDataRead' = frameDataRead + 4
            /\ reads' = [reads EXCEPT !.hi = at + 4]
            /\ UNCHANGED fIdx
       ELSE IF ~CanRead(ubvBytes, at + 4, nalSize)
       THEN /\ LogFatal("Failed to read video essence")
            /\ frameDataRead' = frameDataRead + 4
            /\ reads' = [reads EXCEPT !.hi = at + 4]
            /\ UNCHANGED << fIdx, videoSink, audioSink, disk, ubvOpen >>
       ELSE \E written \in { "both", "payload", "none" } :
              /\ frameDataRead' = frameDataRead + 4 + nalSize
              /\ reads' = [reads EXCEPT !.hi = at + 4 + nalSize]
              /\ UNCHANGED << audioSink, disk, ubvOpen >>
              /\ IF written = "both"
                 THEN /\ videoSink' = SinkWrite(videoSink,
                                        NalOutput(Slice(ubvBytes, at + 4, nalSize)))
                      /\ IF frameDataRead + 4 + nalSize < frame.Size
                         THEN UNCHANGED << pc, fIdx >>
                         ELSE pc' = "demuxFrame" /\ fIdx' = fIdx + 1
                      /\ UNCHANGED exitMsg
                 ELSE IF written = "payload"
                 THEN /\ LogFatal("Failed to write output NAL Separator")
                      /\ videoSink' = SinkWrite(videoSink, Slice(ubvBytes, at + 4, nalSize))
                      /\ UNCHANGED fIdx
                 ELSE /\ LogFatal("Failed to write output video data")
                      /\ UNCHANGED << fIdx, videoSink >>
    /\ UNCHANGED << named, timecode,
                    inputVars, readerVars, pIdx, videoFilename, audioFilename,
                    mp4Filename, buffer, created, routed, muxed >>

\* lines 139-147 and the return of both functions: the explicit flushes,
\* then the deferred calls
DemuxReturn ==
    /\ pc = "demuxFrame"
    /\ fIdx > Len(partitions[pIdx].Frames)
    /\ RunDeferred
    /\ pc' = "mux"
    /\ UNCHANGED << named, timecode, exitMsg, inputVars, readerVars, pIdx, videoFilename,
                    audioFilename, mp4Filename, buffer, fIdx, frameDataRead,
                    created, routed, reads, muxed >>

-----------------------------------------------------------------------------
(* ffmpegutil: MuxAudioAndVideo, MuxVideoOnly, MuxAudioOnly, and the       *)
(* deletion of the bitstream files by RemuxCLI                             *)

\* how a mux ends; stamped: the video FFmpeg command, with its -timecode
\* argument, was built
MuxEnd(end, msg, rateFixed, made) ==
    [end |-> end, msg |-> msg, rateFixed |-> rateFixed, made |-> made,
     stamped |-> FALSE]

\* an FFmpeg run whose failure is only logged
RunFFmpegUnchecked(ff, rateFixed) == MuxEnd("next", "", rateFixed, ff = "ok")
\* getFfmpegCommand and runFFmpeg; ff is what the environment answers
RunFFmpeg(ff, rateFixed) ==
    IF ff = "notFound" THEN MuxEnd("fatal", "FFmpeg not on PATH", rateFixed, FALSE)
    ELSE IF ff = "failed" THEN MuxEnd("fatal", "FFmpeg command failed", rateFixed, FALSE)
    ELSE MuxEnd("next", "", rateFixed, TRUE)

\* from "videoTrack := partition.Tracks[videoTrackNum]" to the FFmpeg run.
\* A missing track is a nil pointer, dereferenced by videoTrack.FrameCount.
MuxTrack(partition, trackNum, needAudio, ff) ==
    IF trackNum \notin DOMAIN partition.Tracks
    THEN MuxEnd("panic", "nil pointer dereference", FALSE, FALSE)
    ELSE IF needAudio /\ TrackAudio \notin DOMAIN partition.Tracks
    THEN MuxEnd("panic", "nil pointer dereference", FALSE, FALSE)
    ELSE IF partition.Tracks[trackNum].FrameCount <= 0
            \/ (needAudio /\ partition.Tracks[TrackAudio].FrameCount <= 0)
    THEN MuxEnd("next", "", FALSE, FALSE)
    ELSE [RunFFmpeg(ff, partition.Tracks[trackNum].Rate <= 0)
            EXCEPT !.stamped = ff # "notFound"]

MuxVideoOnly(partition, trackNum, ff) == MuxTrack(partition, trackNum, FALSE, ff)

\* ff answers the first FFmpeg run.  With an audio file and no video file
\* MuxAudioOnly runs and control falls through to the audio+video mux, whose
\* FFmpeg run is given an empty input name and fails.
MuxAudioAndVideo(partition, h264File, trackNum, aacFile, ff) ==
    IF ~aacFile.set THEN MuxVideoOnly(partition, trackNum, ff)
    ELSE IF ~h264File.set
    THEN LET first == RunFFmpeg(ff, FALSE) IN
         IF first.end # "next" THEN first
         ELSE LET second == MuxTrack(partition, trackNum, TRUE, "failed") IN
              [second EXCEPT !.made = TRUE]
    ELSE MuxTrack(partition, trackNum, TRUE, ff)

Remove(d, name) ==
    IF name.set /\ name \in DOMAIN d
    THEN [n \in DOMAIN d \ {name} |-> d[n]]
    ELSE d

\* lines 137-155: mux, delete the bitstream files, go to the next partition
RemuxMux ==
    /\ pc = "mux"
    /\ \E ff \in { "ok", "notFound", "failed" } :
         LET partition == partitions[pIdx]
             r == IF createMP4
                  THEN MuxAudioAndVideo(partition, videoFilename, videoTrackNum,
                                        audioFilename, ff)
                  ELSE MuxEnd("next", "", FALSE, FALSE)
             d1 == IF r.made THEN Put(disk, mp4Filename, << >>) ELSE disk
         IN
         /\ createMP4 \/ ff = "ok"
         /\ partitions' = IF r.rateFixed
                          THEN [partitions EXCEPT ![pIdx].Tracks[videoTrackNum].Rate = 1]
                          ELSE partitions
         /\ muxed' = IF r.made THEN muxed \cup { pIdx } ELSE muxed
         /\ timecode' \in IF r.stamped
                            THEN LET track == partition.Tracks[videoTrackNum] IN
                                 Stamp(track.StartTimecode,
                                       IF track.Rate <= 0 THEN 1 ELSE track.Rate)
                            ELSE { timecode }
         /\ IF r.end = "next"
            THEN /\ disk' = IF createMP4
                            THEN Remove(Remove(d1, videoFilename), audioFilename)
                            ELSE d1
                 /\ pIdx' = pIdx + 1
                 /\ pc' = IF pIdx < Len(partitions) THEN "prepare" ELSE "done"
                 /\ UNCHANGED exitMsg
            ELSE /\ disk' = d1
                 /\ pc' = r.end
                 /\ exitMsg' = r.msg
                 /\ UNCHANGED pIdx
    /\ UNCHANGED << named,
                    inputVars, sidecar, gen, source, lookedUp, childState, exitStatus,
                    waited, scanPos, firstLine, current, detached, returned,
                    videoFilename, audioFilename, mp4Filename, ubvOpen, videoSink,
                    audioSink, buffer, fIdx, frameDataRead, created, routed, reads >>

-----------------------------------------------------------------------------
(* Specifications                                                          *)

\* the state every run starts from, given its inputs
StartAt(p, g, stamp) ==
    /\ pc = p
    /\ named = << >>
    /\ timecode = stamp
    /\ exitMsg = ""
    /\ sidecar = << >>
    /\ gen = g
    /\ cacheExists = FALSE
    /\ ubvBytes = NotRead
    /\ source = "none"
    /\ lookedUp = FALSE
    /\ childState = "none"
    /\ exitStatus = 0
    /\ waited = FALSE
    /\ scanPos = 0
    /\ firstLine = InitialParser.firstLine
    /\ partitions = InitialParser.partitions
    /\ current = InitialParser.current
    /\ detached = InitialParser.detached
    /\ returned = FALSE
    /\ pIdx = 0
    /\ videoFilename = NoFile
    /\ audioFilename = NoFile
    /\ mp4Filename = NoFile
    /\ ubvOpen = FALSE
    /\ videoSink = NoSink
    /\ audioSink = NoSink
    /\ buffer = 0
    /\ fIdx = 0
    /\ frameDataRead = 0
    /\ disk = << >>
    /\ created = { }
    /\ routed = << >>
    /\ reads = [lo |-> 0, hi |-> 0]
    /\ muxed = { }

Start(g) == StartAt("Analyse", g, NoTimecode)

\* main: the flags as flag.Parse leaves them, at least one of audio and video
Init ==
    /\ Start(GenRun)
    /\ extractAudio \in BOOLEAN
    /\ extractVideo \in BOOLEAN
    /\ extractAudio \/ extractVideo
    /\ videoTrackNum \in { TrackVideo, TrackVideoHevcUnknown }
    /\ forceRate \in { 0, 30 }
    /\ createMP4 \in BOOLEAN

\* the Index Reader alone, on the sidecars of the probe, lines and malformed
\* families
InitIndex ==
    /\ \E g \in { GenProbe, GenLines, GenMalformed } : Start(g)
    /\ extractAudio = TRUE
    /\ extractVideo = TRUE
    /\ videoTrackNum = TrackVideo
    /\ forceRate \in { 0, 30 }
    /\ createMP4 = TRUE

\* the instants GenerateTimecode is called with: 11:58:26 and 23:59:59 of
\* 2023-05-16 and 00:00:05 of 1970-01-01, at nanoseconds on and around the
\* frame boundaries and their midpoints
TimecodeSeconds == { 1684238306, 1684281599, 5 }
TimecodeNanos ==
    { 0, 1000000, 16000000, 16666666, 16666667, 33000000, 33333333, 33333334,
      40000000, 50000000, 166666640, 250000000, 499999999, 500000000,
      520000000,
      750000000, 966000000, 983333333, 983333334, 990000000, 999000000,
      999999999 }

\* GenerateTimecode alone, as TestGenerateTimecode calls it: on an instant
\* and a rate, outside any run
InitTimecode ==
    /\ \E sec \in TimecodeSeconds, nsec \in TimecodeNanos, rate \in 1..MaxRate :
          StartAt("GenerateTimecode", GenNone,
                  [t |-> [sec |-> sec, nsec |-> nsec], rate |-> rate,
                   out |-> << >>])
    /\ extractAudio = TRUE
    /\ extractVideo = TRUE
    /\ videoTrackNum = TrackVideo
    /\ forceRate = 0
    /\ createMP4 = TRUE

\* DemuxSinglePartitionToNewFiles alone, called as RemuxCLI calls it: on a
\* partition the parser built, with the names of the sinks to create
InitDemux ==
    \E frames \in UNION { [1..n -> DemuxFrames] : n \in 0..MaxDemuxFrames } :
      LET ps == ParseAll(DemuxSidecar(frames), InitialParser) IN
      /\ pc = "demuxOpen"
      /\ named = << 1 >>
      /\ timecode = NoTimecode
      /\ exitMsg = ""
      /\ sidecar = DemuxSidecar(frames)
      /\ gen = GenNone
      /\ ubvBytes \in DemuxFiles
      /\ cacheExists = TRUE
      /\ extractAudio \in BOOLEAN
      /\ extractVideo \in BOOLEAN
      /\ videoTrackNum \in { TrackVideo, TrackVideoHevcUnknown }
      /\ forceRate = 0
      /\ createMP4 = FALSE
      /\ source = "file"
      /\ lookedUp = FALSE
      /\ childState = "none"
      /\ exitStatus = 0
      /\ waited = FALSE
      /\ scanPos = Len(sidecar)
      /\ firstLine = ps.firstLine
      /\ partitions = ps.partitions
      /\ current = ps.current
      /\ detached = ps.detached
      /\ returned = TRUE
      /\ pIdx = 1
      /\ videoFilename = IF extractVideo THEN FileName(1, "h264") ELSE NoFile
      /\ audioFilename = IF extractAudio THEN FileName(1, "aac") ELSE NoFile
      /\ mp4Filename = NoFile
      /\ ubvOpen = FALSE
      /\ videoSink = NoSink
      /\ audioSink = NoSink
      /\ buffer = 0
      /\ fIdx = 0
      /\ frameDataRead = 0
      /\ disk = << >>
      /\ created = { }
      /\ routed = << >>
      /\ reads = [lo |-> 0, hi |-> 0]
      /\ muxed = { }

\* RemuxCLI from the return of Analyse, on an index the parser built from a
\* cached sidecar of one partition or more
InitRemux ==
    \E shapes \in UNION { [1..n -> PartitionShapes] : n \in 1..MaxPartitions } :
      LET ps == ParseAll(RemuxSidecar(shapes), InitialParser) IN
      /\ pc = "indexed"
      /\ named = << >>
      /\ timecode = NoTimecode
      /\ exitMsg = ""
      /\ sidecar = RemuxSidecar(shapes)
      /\ gen = GenNone
      /\ ubvBytes = NotRead
      /\ cacheExists = TRUE
      /\ extractAudio \in BOOLEAN
      /\ extractVideo \in BOOLEAN
      /\ extractAudio \/ extractVideo
      /\ videoTrackNum = TrackVideo
      /\ forceRate = 0
      /\ createMP4 \in BOOLEAN
      /\ source = "file"
      /\ lookedUp = FALSE
      /\ childState = "none"
      /\ exitStatus = 0
      /\ waited = FALSE
      /\ scanPos = Len(sidecar)
      /\ firstLine = ps.firstLine
      /\ partitions = ps.partitions
      /\ current = ps.current
      /\ detached = ps.detached
      /\ returned = TRUE
      /\ pIdx = 0
      /\ videoFilename = NoFile
      /\ audioFilename = NoFile
      /\ mp4Filename = NoFile
      /\ ubvOpen = FALSE
      /\ videoSink = NoSink
      /\ audioSink = NoSink
      /\ buffer = 0
      /\ fIdx = 0
      /\ frameDataRead = 0
      /\ disk = << >>
      /\ created = { }
      /\ routed = << >>
      /\ reads = [lo |-> 0, hi |-> 0]
      /\ muxed = { }

IndexNext ==
    \/ Analyse
    \/ runUbvInfo
    \/ parseUbvInfoFile
    \/ ChildWrite
    \/ ChildClose
    \/ ChildExit
    \/ ScanLine
    \/ ScanEnd
    \/ CmdWait

DemuxNext ==
    \/ DemuxSinglePartitionToNewFiles
    \/ DemuxSinglePartition
    \/ DemuxFrame
    \/ DemuxNal
    \/ DemuxReturn

Next ==
    \/ IndexNext
    \/ RemuxIndexed
    \/ PreparePartition
    \/ DemuxNext
    \/ RemuxMux

\* a call of GenerateTimecode on the instant and rate in hand
CallGenerateTimecode ==
    /\ pc = "GenerateTimecode"
    /\ timecode' \in Stamp(timecode.t, timecode.rate)
    /\ pc' = "done"
    /\ UNCHANGED << exitMsg, named, inputVars, readerVars, demuxVars >>

TimecodeNext == CallGenerateTimecode

RemuxNext ==
    \/ RemuxIndexed
    \/ PreparePartition
    \/ DemuxNext
    \/ RemuxMux

Spec == Init /\ [][Next]_vars

SpecRemux == InitRemux /\ [][RemuxNext]_vars

SpecTimecode == InitTimecode /\ [][TimecodeNext]_vars

SpecIndex == InitIndex /\ [][IndexNext]_vars

SpecDemux == InitDemux /\ [][DemuxNext]_vars

-----------------------------------------------------------------------------
(* Properties of the Index Reader                                          *)

\* a frame line whose track id is an integer other than 7, 1003 and 1000
UnknownTrackLine(line) ==
    /\ line.k = "indented"
    /\ Len(line.fields) >= 2
    /\ line.fields[2].int
    /\ line.fields[2].v \notin { 7, 1003, 1000 }

\* C1: once the sidecar holds, after its header, a frame line with a track id
\* other than 7, 1003 or 1000, no index is returned and no output file is
\* created; as soon as the parser has read that line the run has ended fatally.
C1_UnknownTrackIsFatal ==
    \A i \in 2..Len(sidecar) :
        UnknownTrackLine(sidecar[i])
        => /\ ~returned
           /\ created = { }
           /\ disk = << >>
           /\ i <= scanPos => pc = "fatal"

\* the parser accepted a frame, then met a frame line of track 42 and stopped
C1_Witness ==
    /\ pc = "fatal"
    /\ exitMsg = "Encountered unrecognised track number"
    /\ scanPos >= 4
    /\ UnknownTrackLine(sidecar[scanPos])
    /\ Len(partitions) = 1
    /\ partitions[1].FrameCount = 1

\* C7: the analyzer is looked up and spawned only when no cached sidecar
\* exists, the cached sidecar is parsed only when it exists, and once Analyse
\* has chosen, a missing cache means the analyzer is being or has been looked up.
C7_CacheDecidesSpawn ==
    /\ (lookedUp \/ childState # "none" \/ source = "child" \/ pc = "runUbvInfo")
         => ~cacheExists
    /\ (source = "file" \/ pc = "parseUbvInfoFile") => cacheExists
    /\ (pc # "Analyse" /\ ~cacheExists) => (pc = "runUbvInfo" \/ lookedUp)
    /\ (pc # "Analyse" /\ cacheExists)
         => (pc = "parseUbvInfoFile" \/ source = "file" \/ pc = "fatal")

\* an index with a frame was returned from the cached sidecar, and the analyzer
\* was neither looked up nor started
C7_Witness ==
    /\ cacheExists
    /\ returned
    /\ ~lookedUp
    /\ childState = "none"
    /\ Len(partitions) >= 1
    /\ partitions[1].FrameCount >= 1

\* the part of C8 that holds on every path: with the analyzer spawned, the
\* index is returned only after the parser has read the output to its end and
\* cmd.Wait has seen the child exit with status zero; a non-zero status is
\* fatal and returns no index
WaitedBeforeReturn ==
    /\ (source = "child" /\ returned)
         => /\ scanPos = Len(sidecar)
            /\ childState = "exited"
            /\ waited
            /\ exitStatus = 0
    /\ (source = "child" /\ waited)
         => /\ scanPos = Len(sidecar)
            /\ childState = "exited"
    /\ (source = "child" /\ waited /\ exitStatus # 0) => (pc = "fatal" /\ ~returned)

\* C8 as stated: the above, and on every path that ends the Index Reader the
\* child has been waited for
C8_AlwaysWaited ==
    /\ WaitedBeforeReturn
    /\ (source = "child" /\ pc \notin { "parse", "cmdWait" }) => waited

\* C8 as amended: the above, and the Index Reader ends without having waited
\* for the child only by a fatal error or a panic of the parser, which returns
\* no index
C8_WaitedUnlessParseFails ==
    /\ WaitedBeforeReturn
    /\ (source = "child" /\ pc \notin { "parse", "cmdWait" } /\ ~waited)
         => (pc \in { "fatal", "panic" } /\ ~returned)

\* the analyzer was spawned, the parser read a frame from it, the child was
\* waited for after the end of its output, and the index was returned
C8_Witness ==
    /\ source = "child"
    /\ returned
    /\ waited
    /\ Len(partitions) >= 1
    /\ partitions[1].FrameCount >= 1

-----------------------------------------------------------------------------
(* Properties of the Essence Extractor                                     *)

\* every byte handed to a sink so far: what reached the file, then what the
\* write buffer still holds
Written(s) == (IF s.name \in DOMAIN disk THEN disk[s.name] ELSE << >>) \o s.buf

\* the NAL payloads of a frame record: the length-prefixed units that lie
\* within the size bytes at off, read from intra-frame position c on
RECURSIVE FrameNals(_, _, _, _)
FrameNals(bytes, off, size, c) ==
    IF c + 4 > size \/ off + c + 4 > Len(bytes) THEN << >>
    ELSE LET b == SubSeq(bytes, off + c + 1, off + c + 4)
             n == b[1] * 16777216 + b[2] * 65536 + b[3] * 256 + b[4]
         IN IF b[1] >= 128 \/ c + 4 + n > size \/ off + c + 4 + n > Len(bytes)
            THEN << >>
            ELSE << SubSeq(bytes, off + c + 5, off + c + 4 + n) >>
                 \o FrameNals(bytes, off, size, c + 4 + n)

\* each payload followed by one start code
RECURSIVE Delimited(_)
Delimited(nals) ==
    IF nals = << >> THEN << >>
    ELSE Head(nals) \o << 0, 0, 0, 1 >> \o Delimited(Tail(nals))

\* what the frames of track v owe the video sink, in sidecar order
RECURSIVE VideoExpected(_, _, _)
VideoExpected(frames, v, bytes) ==
    IF frames = << >> THEN << >>
    ELSE (IF Head(frames).TrackNumber = v
          THEN Delimited(FrameNals(bytes, Head(frames).Offset, Head(frames).Size, 0))
          ELSE << >>)
         \o VideoExpected(Tail(frames), v, bytes)

\* C2: when the extraction of a partition with a video sink returns, the video
\* file holds one opening start code and then, for each frame of the selected
\* track in sidecar order and each NAL unit of that frame in order, the NAL
\* payload followed by one start code.
C2_VideoSinkIsNalStream ==
    (pc = "mux" /\ videoSink.present)
    => Written(videoSink)
       = << 0, 0, 0, 1 >>
         \o VideoExpected(partitions[pIdx].Frames, videoTrackNum, ubvBytes)

\* the slices [Offset, Offset+Size) of the frames of track 1000, in order
RECURSIVE AudioExpected(_, _)
AudioExpected(frames, bytes) ==
    IF frames = << >> THEN << >>
    ELSE (IF Head(frames).TrackNumber = 1000
          THEN SubSeq(bytes, Head(frames).Offset + 1,
                      Head(frames).Offset + Head(frames).Size)
          ELSE << >>)
         \o AudioExpected(Tail(frames), bytes)

LastVideoFrame ==
    IF pc = "demuxNal" THEN fIdx
    ELSE IF pc \in { "demuxFrame", "mux" } /\ fIdx > 1 /\ fIdx - 1 <= Len(routed)
            /\ routed[fIdx - 1] = "video"
    THEN fIdx - 1
    ELSE 0

\* C4: a NAL unit is read and written only if it ends within its frame, so
\* the intra-frame cursor never passes frame.Size, no byte beyond the frame is
\* read, and a frame finished without a fatal error leaves the cursor at
\* frame.Size exactly.
C4_NalWithinFrame ==
    LastVideoFrame # 0
    => LET frame == partitions[pIdx].Frames[LastVideoFrame] IN
       /\ frameDataRead <= frame.Size
       /\ reads.hi <= frame.Offset + frame.Size
       /\ pc # "demuxNal" => frameDataRead = frame.Size

\* C5: when DemuxSinglePartitionToNewFiles has ended, by its return, by a
\* fatal error or by a panic, every sink it opened has an empty write buffer
\* and a closed file.
C5_SinksFlushedAndClosed ==
    pc \in { "mux", "fatal", "panic" }
    => /\ videoSink.present => (videoSink.buf = << >> /\ videoSink.closed)
       /\ audioSink.present => (audioSink.buf = << >> /\ audioSink.closed)

-----------------------------------------------------------------------------
(* Properties of the rate probe                                            *)

\* C9: every video track of every partition of a returned index has a
\* Rate above zero, however many frames it has.
C9_VideoRatePositive ==
    returned
    => \A p \in 1..Len(partitions) :
         \A t \in DOMAIN partitions[p].Tracks :
            partitions[p].Tracks[t].IsVideo => partitions[p].Tracks[t].Rate > 0

\* the frame lines of track t in the sidecar (the probe family's sidecars
\* hold one partition)
TrackLines(t) ==
    SelectSeq(sidecar, LAMBDA l : l.k = "indented" /\ l.fields[2] = IntTok(t))

\* every inter-frame value WC_TBC / (WC - previous WC) of track t is k
EveryInterFrameIs(t, k) ==
    LET ls == TrackLines(t) IN
    /\ Len(ls) >= 2
    /\ \A j \in 2..Len(ls) :
          /\ ls[j].fields[8].v # ls[j - 1].fields[8].v
          /\ GoDiv(ls[j].fields[9].v, ls[j].fields[8].v - ls[j - 1].fields[8].v) = k

\* C10: if every inter-frame value of a video track is the same k with
\* 0 < k < 76, the track's Rate in the returned index is k.
C10_ConstantStepGivesRate ==
    returned
    => \A p \in 1..Len(partitions) :
         \A t \in DOMAIN partitions[p].Tracks :
            \A k \in 1..75 :
               (partitions[p].Tracks[t].IsVideo /\ EveryInterFrameIs(t, k))
               => partitions[p].Tracks[t].Rate = k

\* the partition `current` points to
CurrentPartition == IF current = 0 THEN detached ELSE partitions[current]

\* the scanner is about to hand the parser a frame line of track t, and the
\* parser goes on or stops: the line is sidecar'[scanPos + 1]
ParsesFrameOf(t) ==
    /\ pc = "parse"
    /\ ~firstLine
    /\ scanPos' = scanPos + 1
    /\ sidecar'[scanPos + 1].k = "indented"
    /\ Len(sidecar'[scanPos + 1].fields) >= 2
    /\ sidecar'[scanPos + 1].fields[2] = IntTok(t)

\* the positive values of a probe window that no positive value outnumbers
Modes(window) ==
    LET count(v) == Cardinality({ i \in DOMAIN window : window[i] = v })
        positive == { window[i] : i \in DOMAIN window } \cap (1..1000000)
    IN { m \in positive : \A v \in positive : count(v) <= count(m) }

\* C11: when the parser evaluates the rate probe of a video track (a frame
\* of the track arrives when the track has 32 frames and no Rate), a window
\* without a positive value gives Rate 1 and the parse goes on; otherwise the
\* most frequent positive value of the window becomes the Rate if it is in
\* 1..75, and if it exceeds 75 the run ends fatally with no index returned.
C11_ProbeOutcome ==
    [][\A t \in { 7, 1003 } :
         (/\ ParsesFrameOf(t)
          /\ t \in DOMAIN CurrentPartition.Tracks
          /\ CurrentPartition.Tracks[t].Rate = 0
          /\ CurrentPartition.Tracks[t].FrameCount >= 32)
         => LET modes == Modes(CurrentPartition.Tracks[t].RateProbeWindow) IN
            IF modes = { }
            THEN pc' = "parse" /\ CurrentPartition'.Tracks[t].Rate = 1
            ELSE \E m \in modes :
                   IF m <= 75
                   THEN pc' = "parse" /\ CurrentPartition'.Tracks[t].Rate = m
                   ELSE pc' = "fatal" /\ ~returned'
      ]_vars

\* an index was returned in which the probe, finding no positive value in the
\* window of a track of 33 frames or more, set the Rate to 1
C11_Witness ==
    /\ returned
    /\ Len(partitions) = 1
    /\ 7 \in DOMAIN partitions[1].Tracks
    /\ partitions[1].Tracks[7].FrameCount >= 33
    /\ partitions[1].Tracks[7].Rate = 1
    /\ \A i \in 1..32 : partitions[1].Tracks[7].RateProbeWindow[i] <= 0

\* C12: with force-rate above zero the failure of the rate probe does not end
\* the run.
C12_ForcedRateSurvivesProbe ==
    (forceRate > 0 /\ pc = "fatal") => exitMsg # "Video Rate Probe"

-----------------------------------------------------------------------------
(* Properties of the returned index                                        *)

\* the frames a sequence of lines puts into partitions: a marker opens a
\* partition, a frame line adds its TID, OFFSET and SIZE to the open one
RECURSIVE FramesByMarker(_, _)
FramesByMarker(lines, acc) ==
    IF lines = << >> THEN acc
    ELSE LET l == Head(lines) IN
         FramesByMarker(Tail(lines),
            IF l.k = "marker" THEN Append(acc, << >>)
            ELSE IF l.k = "indented" /\ acc # << >>
            THEN [acc EXCEPT ![Len(acc)] =
                    Append(@, [TrackNumber |-> l.fields[2].v,
                               Offset |-> l.fields[4].v,
                               Size |-> l.fields[5].v])]
            ELSE acc)

\* C17: the returned index has one partition per marker line after the
\* header, in order, and the Frames of each are the frame lines between its
\* marker and the next marker or the end, in order, with the TID, OFFSET and
\* SIZE of their lines.
C17_PartitionsFollowMarkers ==
    returned
    => LET expected == FramesByMarker(SubSeq(sidecar, 2, Len(sidecar)), << >>) IN
       /\ Len(partitions) = Len(expected)
       /\ \A p \in 1..Len(partitions) :
             /\ partitions[p].Frames = expected[p]
             /\ partitions[p].FrameCount = Len(expected[p])
             /\ partitions[p].Index = p - 1

\* an index of two partitions was returned, the first with a frame at offset 0
\* of size 5
C17_Witness ==
    /\ returned
    /\ gen.mode = "lines"
    /\ Len(partitions) = 2
    /\ Len(partitions[1].Frames) = 1
    /\ partitions[1].Frames[1].Offset = 0
    /\ partitions[1].Frames[1].Size = 5
    /\ partitions[2].Frames = << >>

\* instant a is not later than instant b
NotLater(a, b) == a.sec < b.sec \/ (a.sec = b.sec /\ a.nsec <= b.nsec)

\* C18: every track of every partition of a returned index has
\* StartTimecode <= LastTimecode.
C18_StartNotAfterLast ==
    returned
    => \A p \in 1..Len(partitions) :
         \A t \in DOMAIN partitions[p].Tracks :
            NotLater(partitions[p].Tracks[t].StartTimecode,
                     partitions[p].Tracks[t].LastTimecode)

\* unix_epoch + (wc * 1,000,000,000) / tbc nanoseconds, for 0 <= wc and
\* 0 < tbc, by long division three decimal digits at a time
NanoInstant(wc, tbc) ==
    LET r0 == wc % tbc
        q1 == (r0 * 1000) \div tbc
        r1 == (r0 * 1000) % tbc
        q2 == (r1 * 1000) \div tbc
        r2 == (r1 * 1000) % tbc
        q3 == (r2 * 1000) \div tbc
    IN [sec |-> wc \div tbc, nsec |-> q1 * 1000000 + q2 * 1000 + q3]

\* unix_epoch + (wc * 1000) / tbc milliseconds
MilliInstant(wc, tbc) ==
    LET ms == (wc * 1000) \div tbc IN
    [sec |-> ms \div 1000, nsec |-> (ms % 1000) * 1000000]

\* the parser accepts a frame line of track t: the instant it records for the
\* frame is `instant` of the line's WC and WC_TBC, as the track's
\* LastTimecode and, for the track's first frame, as its StartTimecode
RecordsInstant(t, instant(_, _)) ==
    (ParsesFrameOf(t) /\ pc' = "parse")
    => LET line == sidecar'[scanPos + 1]
           at == instant(line.fields[8].v, line.fields[9].v)
       IN /\ CurrentPartition'.Tracks[t].LastTimecode = at
          /\ t \notin DOMAIN CurrentPartition.Tracks
             => CurrentPartition'.Tracks[t].StartTimecode = at
          /\ t \in DOMAIN CurrentPartition.Tracks
             => CurrentPartition'.Tracks[t].StartTimecode
                = CurrentPartition.Tracks[t].StartTimecode

\* C20 as stated: the instant recorded for a frame is
\* unix_epoch + (WC * 1,000,000,000) / WC_TBC nanoseconds.
C20_InstantInNanoseconds ==
    [][\A t \in { 7, 1003, 1000 } : RecordsInstant(t, NanoInstant)]_vars

\* C20 as amended: the instant recorded for a frame is
\* unix_epoch + (WC * 1000) / WC_TBC milliseconds.
C20_InstantInMilliseconds ==
    [][\A t \in { 7, 1003, 1000 } : RecordsInstant(t, MilliInstant)]_vars

\* an index was returned whose audio track started on the line with WC 48000
\* and ended, at the same recorded instant, on the line with WC 48001
C20_Witness ==
    /\ returned
    /\ Len(partitions) = 1
    /\ Len(sidecar) = 4
    /\ SubSeq(sidecar, 3, 4) = << A1, A2 >>
    /\ partitions[1].Tracks[1000].FrameCount = 2
    /\ partitions[1].Tracks[1000].StartTimecode = [sec |-> 1, nsec |-> 0]
    /\ partitions[1].Tracks[1000].LastTimecode = [sec |-> 1, nsec |-> 0]

-----------------------------------------------------------------------------
(* Properties of GenerateTimecode                                          *)

\* the text HH:MM:SS of the time of day of an instant
TimeOfDay(t) ==
    LET s == t.sec % 86400
        two(n) == << DigitChar(n \div 10), DigitChar(n % 10) >>
    IN two(s \div 3600) \o << ":" >> \o two((s \div 60) % 60) \o << ":" >> \o two(s % 60)

\* a frame number printed with at least two digits
FrameDigits(ff) ==
    IF ff < 100 THEN << DigitChar(ff \div 10), DigitChar(ff % 10) >>
    ELSE << DigitChar(ff \div 100), DigitChar((ff \div 10) % 10), DigitChar(ff % 10) >>

\* floor(nsec * rate / 1000), the position within the second in millionths
\* of a frame
MicroFrames(nsec, rate) == (nsec \div 1000) * rate + ((nsec % 1000) * rate) \div 1000

\* floor(nsec / 1e9 * rate) + 1
FloorFrame(nsec, rate) == MicroFrames(nsec, rate) \div 1000000 + 1

\* ff is nsec / 1e9 * rate + 1 rounded to the nearest integer, up to the
\* error of single precision (a ten-thousandth of a frame)
NearestFrame(ff, nsec, rate) ==
    LET d == ff * 1000000 - (MicroFrames(nsec, rate) + 1000000) IN
    d >= -(500000 + 100) /\ d <= 500000 + 100

\* C13 as stated: the result of GenerateTimecode(t, rate) is HH:MM:SS of t,
\* a dot, and FF = floor(nanoseconds(t) / 1e9 * rate) + 1 in two digits or
\* more.
C13_FrameIsFloorPlusOne ==
    timecode.out # << >>
    => timecode.out = TimeOfDay(timecode.t) \o << "." >>
                      \o FrameDigits(FloorFrame(timecode.t.nsec, timecode.rate))

\* C13 as amended: the result of GenerateTimecode(t, rate) is HH:MM:SS of t,
\* a dot, and FF in two digits or more, FF being
\* nanoseconds(t) / 1e9 * rate + 1 rounded to the nearest integer.
C13_FrameIsNearest ==
    timecode.out # << >>
    => \E ff \in 1..(timecode.rate + 1) :
         /\ NearestFrame(ff, timecode.t.nsec, timecode.rate)
         /\ timecode.out = TimeOfDay(timecode.t) \o << "." >> \o FrameDigits(ff)

\* GenerateTimecode was called on 2023-05-16T11:58:26.500Z at rate 30 and
\* returned 11:58:26.16
C13_Witness ==
    /\ timecode.t = [sec |-> 1684238306, nsec |-> 500000000]
    /\ timecode.rate = 30
    /\ timecode.out = << "1", "1", ":", "5", "8", ":", "2", "6", ".", "1", "6" >>

\* C21 as stated: for every rate in 1..99 the result of GenerateTimecode has
\* exactly 11 characters.
C21_ElevenCharacters ==
    (timecode.out # << >> /\ timecode.rate \in 1..99) => Len(timecode.out) = 11

\* C21 as amended: for every rate in 1..98 the result of GenerateTimecode has
\* exactly 11 characters; at rate 99 it has 11 or 12.
C21_ElevenCharactersBelow99 ==
    /\ (timecode.out # << >> /\ timecode.rate \in 1..98) => Len(timecode.out) = 11
    /\ (timecode.out # << >> /\ timecode.rate = 99) => Len(timecode.out) \in { 11, 12 }

\* GenerateTimecode was called at rate 98 on the last nanosecond of a second
\* and returned a frame part of 99, in 11 characters
C21_Witness ==
    /\ timecode.rate = 98
    /\ timecode.t.nsec = 999999999
    /\ Len(timecode.out) = 11
    /\ SubSeq(timecode.out, 9, 11) = << ".", "9", "9" >>

\* the partition in hand has no frame of track t
NoFramesOf(t) ==
    \A i \in 1..Len(partitions[pIdx].Frames) :
       partitions[pIdx].Frames[i].TrackNumber # t

\* the sink was flushed and closed and its file holds exactly the bytes
FileClosedWith(s, bytes) ==
    /\ s.closed
    /\ s.buf = << >>
    /\ s.name \in DOMAIN disk
    /\ disk[s.name] = bytes

\* the failures of the file system: os.OpenFile, os.Create and the write of
\* the opening start code
OpenErrors ==
    { "Error opening UBV file", "Error opening video bitstream output",
      "Error opening audio bitstream output",
      "Failed to write output NAL Separator" }

\* C22: an extraction whose opened sinks have no frame of their track in the
\* partition fails only if the file system does, and when it returns the video sink is flushed and
\* closed with the 4-byte start code in its file, the audio sink with an
\* empty file.
C22_EmptySinksClosedCleanly ==
    LET idleVideo == videoSink.present /\ NoFramesOf(videoTrackNum)
        idleAudio == audioSink.present /\ NoFramesOf(1000)
    IN
    /\ ((idleVideo \/ idleAudio)
        /\ (videoSink.present => idleVideo) /\ (audioSink.present => idleAudio))
       => (pc \in { "fatal", "panic" } => exitMsg \in OpenErrors)
    /\ (pc = "mux" /\ idleVideo) => FileClosedWith(videoSink, << 0, 0, 0, 1 >>)
    /\ (pc = "mux" /\ idleAudio) => FileClosedWith(audioSink, << >>)

\* with track 1003 selected, the extraction of a partition that only holds
\* frames of track 7 returned: the video file holds the start code alone
C22_Witness ==
    /\ pc = "mux"
    /\ videoTrackNum = 1003
    /\ videoSink.present
    /\ Len(partitions[pIdx].Frames) >= 1
    /\ \A i \in 1..Len(partitions[pIdx].Frames) :
          partitions[pIdx].Frames[i].TrackNumber = 7
    /\ videoSink.closed
    /\ disk[videoFilename] = << 0, 0, 0, 1 >>

-----------------------------------------------------------------------------
(* Properties of RemuxCLI                                                  *)

\* no sink, no file and no written frame of the given kind
NothingOf(sink, filename, ext, route) ==
    /\ ~sink.present
    /\ ~filename.set
    /\ \A n \in created \cup DOMAIN disk : n.ext # ext
    /\ \A i \in 1..Len(routed) : routed[i] # route

\* C14: with with-audio false no audio sink is opened, no audio file is
\* created and no audio frame is written, whatever the index lists; with
\* with-video false no video sink is opened and no video file is created.
C14_FlagsGateSinks ==
    /\ ~extractAudio => NothingOf(audioSink, audioFilename, "aac", "audio")
    /\ ~extractVideo => NothingOf(videoSink, videoFilename, "h264", "video")

\* with with-audio false, the demuxer went through a partition that holds a
\* video frame and an audio frame: the first was written, the second skipped
C14_Witness ==
    /\ ~extractAudio
    /\ pc = "mux"
    /\ pIdx = 1
    /\ partitions[1].AudioTrackCount = 1
    /\ Len(partitions[1].Frames) = 2
    /\ partitions[1].Frames[2].TrackNumber = TrackAudio
    /\ routed = << "video", "skip" >>

\* the names of the bitstream files on a disk
Bitstreams(d) == { n \in DOMAIN d : n.ext \in { "h264", "aac" } }

\* C15: a bitstream file leaves the disk only in the step in which, MP4
\* output being enabled, the mux of the partition in hand was made and
\* returned; a mux that ends the run (FFmpeg not found, FFmpeg failed)
\* leaves every bitstream file on disk with its content.
C15_DeletedOnlyAfterMux ==
    [][/\ Bitstreams(disk) \ Bitstreams(disk') # { }
          => /\ pc = "mux"
             /\ createMP4
             /\ pIdx \in muxed'
             /\ pc' \in { "prepare", "done" }
             /\ exitMsg' = ""
       /\ (pc = "mux" /\ pc' \in { "fatal", "panic" })
          => \A n \in Bitstreams(disk) : n \in DOMAIN disk' /\ disk'[n] = disk[n]
      ]_vars

\* the mux of the first partition was made and its .h264 file, created
\* earlier, is gone while the .mp4 is on disk
C15_Witness ==
    /\ createMP4
    /\ 1 \in muxed
    /\ pc \in { "prepare", "done" }
    /\ \E n \in created : n.ext = "h264" /\ n \notin DOMAIN disk
    /\ \E n \in DOMAIN disk : n.ext = "mp4"

\* partition p has no frame of a requested kind: none of the selected video
\* track if video is requested, none of the audio track if audio is
Skippable(p) ==
    \A i \in 1..Len(partitions[p].Frames) :
       /\ extractVideo => partitions[p].Frames[i].TrackNumber # videoTrackNum
       /\ extractAudio => partitions[p].Frames[i].TrackNumber # 1000

\* C23: while a partition without a frame of a requested kind is in hand, no
\* sink is open for it, none of its files is on disk, and the run does not
\* end (but for a failure to open the input file).
C23_EmptyPartitionSkipped ==
    (/\ pc \in { "demux", "demuxFrame", "demuxNal", "mux", "fatal", "panic" }
     /\ pIdx \in 1..Len(partitions)
     /\ returned
     /\ exitMsg \notin OpenErrors
     /\ Skippable(pIdx))
    => /\ ~videoSink.present
       /\ ~audioSink.present
       /\ pc \notin { "fatal", "panic" }

\* C16: the base names chosen for the partitions of one input differ from
\* one another.
C16_DistinctBasenames ==
    \A i, j \in 1..Len(named) : i # j => named[i] # named[j]

\* C19: every frame of every partition of a returned index has a Size above
\* zero and ends within the .ubv file (whose length is known once the file
\* has been opened).
C19_FramesWithinFile ==
    returned
    => \A p \in 1..Len(partitions) :
         \A i \in 1..Len(partitions[p].Frames) :
            LET frame == partitions[p].Frames[i] IN
            /\ frame.Size > 0
            /\ ubvBytes # NotRead => frame.Offset + frame.Size <= Len(ubvBytes)

-----------------------------------------------------------------------------
(* Properties of the parser on malformed lines                             *)

\* a frame line of nine fields or more in which TID, OFFSET, SIZE, WC or
\* WC_TBC is not an integer, or WC_TBC is 0
MalformedFrameLine(line) ==
    /\ line.k = "indented"
    /\ Len(line.fields) >= 9
    /\ \/ \E f \in { 2, 4, 5, 8, 9 } : ~line.fields[f].int
       \/ line.fields[9].v = 0

\* the messages of the parser's fatal errors on a field
FieldErrors ==
    { "Error parsing track number", "Error parsing field offset",
      "Error parsing frame size", "Error parsing WC field",
      "Error parsing TBC field", "Parsed TBC returned 0",
      "Encountered unrecognised track number" }

\* C24: once the parser has read, after the header, a frame line in which
\* TID, OFFSET, SIZE, WC or WC_TBC is not an integer or WC_TBC is 0, the run
\* has ended with a fatal parse error on that very line and no index is
\* returned.
C24_MalformedLineIsFatal ==
    \A i \in 2..Len(sidecar) :
       (MalformedFrameLine(sidecar[i]) /\ scanPos >= i)
       => /\ pc = "fatal"
          /\ exitMsg \in FieldErrors
          /\ scanPos = i
          /\ ~returned

\* the parser read a frame line with a WC_TBC of 0 in the first partition and
\* the run ended there
C24_Witness ==
    /\ pc = "fatal"
    /\ exitMsg = "Parsed TBC returned 0"
    /\ scanPos = 3
    /\ sidecar[2] = MarkerLine
    /\ sidecar[3] = ZeroTbc
    /\ ~returned

\* C30: the parser never reads a field a line does not have: once it has
\* read, after the header, a line that begins with whitespace and has fewer
\* than 9 fields, it has ignored the line or ended the run with a reported
\* fatal error.
C30_ShortLineNeverIndexed ==
    \A i \in 2..Len(sidecar) :
       (sidecar[i].k = "indented" /\ Len(sidecar[i].fields) < 9 /\ scanPos >= i)
       => /\ exitMsg # "index out of range"
          /\ pc # "panic"

-----------------------------------------------------------------------------
(* Shape of the returned index                                             *)

\* the frames of a partition that carry track id t
FramesOf(part, t) == { i \in 1..Len(part.Frames) : part.Frames[i].TrackNumber = t }

\* C25: in every partition of a returned index a track is video iff its id
\* is 7 or 1003, every frame's track id is a key of Tracks, the two track
\* counts are the numbers of video and audio entries of Tracks, FrameCount is
\* the length of Frames, and each track's FrameCount is the number of frames
\* with its id.
C25_IndexIsConsistent ==
    returned
    => \A p \in 1..Len(partitions) :
         LET part == partitions[p] IN
         /\ \A t \in DOMAIN part.Tracks :
               /\ part.Tracks[t].IsVideo <=> t \in { 7, 1003 }
               /\ part.Tracks[t].TrackNumber = t
               /\ part.Tracks[t].FrameCount = Cardinality(FramesOf(part, t))
         /\ \A i \in 1..Len(part.Frames) :
               part.Frames[i].TrackNumber \in DOMAIN part.Tracks
         /\ part.VideoTrackCount
            = Cardinality({ t \in DOMAIN part.Tracks : part.Tracks[t].IsVideo })
         /\ part.AudioTrackCount
            = Cardinality({ t \in DOMAIN part.Tracks : ~part.Tracks[t].IsVideo })
         /\ part.FrameCount = Len(part.Frames)

\* an index was returned whose only partition holds one frame of track 7
\* and one of track 1000
C25_Witness ==
    /\ returned
    /\ Len(partitions) = 1
    /\ DOMAIN partitions[1].Tracks = { 7, 1000 }
    /\ partitions[1].Tracks[7].FrameCount = 1
    /\ partitions[1].Tracks[1000].FrameCount = 1
    /\ partitions[1].VideoTrackCount = 1
    /\ partitions[1].AudioTrackCount = 1
    /\ partitions[1].FrameCount = 2

\* the index after the step is the index before it with the Rate of every
\* video track set to rate, and nothing else changed
OnlyVideoRatesSet(rate) ==
    /\ Len(partitions') = Len(partitions)
    /\ \A p \in 1..Len(partitions) :
          /\ DOMAIN partitions'[p].Tracks = DOMAIN partitions[p].Tracks
          /\ [partitions'[p] EXCEPT !.Tracks = partitions[p].Tracks] = partitions[p]
          /\ \A t \in DOMAIN partitions[p].Tracks :
                LET old == partitions[p].Tracks[t]
                    new == partitions'[p].Tracks[t]
                IN IF old.IsVideo
                   THEN new = [old EXCEPT !.Rate = rate]
                   ELSE new = old

\* C26: once the index has been returned, a step changes it only if it is
\* the force-rate override, taken with force-rate above zero before the first
\* partition is extracted, and then it sets the Rate of every video track and
\* nothing else.
C26_IndexReadOnlyAfterOverride ==
    [][(returned /\ partitions' # partitions)
       => /\ pc = "indexed"
          /\ pIdx = 0
          /\ forceRate > 0
          /\ OnlyVideoRatesSet(forceRate)
      ]_vars

\* the number of frames in the partitions of a list
RECURSIVE TotalFrames(_)
TotalFrames(parts) ==
    IF parts = << >> THEN 0
    ELSE Len(Head(parts).Frames) + TotalFrames(Tail(parts))

\* C27: the partitions of a returned index hold, together, as many frames as
\* the sidecar has frame lines after its header (every one of which the
\* parser accepted, or no index would have been returned), those before the
\* first marker included.
C27_EveryFrameInAPartition ==
    returned
    => TotalFrames(partitions)
       = Cardinality({ i \in 2..Len(sidecar) : sidecar[i].k = "indented" })

\* C28: the parse never ends in a division by zero: a frame of a video
\* track without a Rate whose WC equals that of the track's previous frame
\* stores a probe value or ends the run with a reported fatal error.
C28_ProbeNeverDividesByZero ==
    ~(pc = "panic" /\ exitMsg = "integer divide by zero")

-----------------------------------------------------------------------------
(* Properties of the scratch buffer                                        *)

\* C29: no read into and no write from the scratch buffer uses a length
\* outside 0..len(buffer): a NAL length prefix with the sign bit set ends the
\* run with the frame-bounds fatal error, never with a slice out of range.
C29_BufferSlicesInRange ==
    ~(pc = "panic" /\ exitMsg = "slice bounds out of range")

====
